---- MODULE Spec2Model ----
(***************************************************************************)
(* Model of the parallel text searcher of src/go/text/search.go.           *)
(*                                                                         *)
(* A file is a sequence of bytes (ASCII codes).  NewSearcher cuts it into  *)
(* chunks of chunkSize bytes and interleaves them with empty fence slots;  *)
(* Search(word, context) rewrites the fence slots, starts one goroutine    *)
(* per buffer, waits for all of them and flattens the per-buffer matches.  *)
(*                                                                         *)
(* Indices (bufferNum, index, skip, wordIndex) are 0-based as in the Go    *)
(* code; At and Slice translate them to TLA+ sequences.                    *)
(*                                                                         *)
(* chunkSize and maxWordSizeInBytes are scaled down (4096 -> 4, 20 -> 2)   *)
(* so that files of two chunks can be enumerated; like 4096 and 20 they    *)
(* are such that the largest fence half-width that fits a chunk is a       *)
(* whole number of words.                                                  *)
(***************************************************************************)
EXTENDS Integers, Sequences, FiniteSets, TLC

\* ------------------------------------------------------------------ bounds
MaxFileLen == 5
MaxContext == 3
MaxMatches == 4

\* --------------------------------------------------------------- constants
chunkSize == 4
maxWordSizeInBytes == 2

\* ------------------------------------------------------------------- bytes
NUL == 0
SP == 32
LOWER_A == 97
UPPER_A == 65

\* "abcdefghijklmnopqrstuvwxyzABCDEFGHIJKLMNOPQRSTUVWXYZ0123456789'-"
wordCharactersList == (97..122) \cup (65..90) \cup (48..57) \cup {39, 45}

\* "\".,!?(){}[]" in the order of the list
punctuationList == <<34, 46, 44, 33, 63, 40, 41, 123, 125, 91, 93>>

\* unicode.IsSpace on ASCII, as bytes.Fields uses it: \t \n \v \f \r and space
asciiSpace == {9, 10, 11, 12, 13, 32}

\* U+212A KELVIN SIGN in UTF-8; unicode.ToLower maps it to 'k'
KELVIN == <<226, 132, 170>>

LOWER_K == 107

\* U+FFFD in UTF-8: what bytes.Map writes for a byte that is not part of a
\* valid UTF-8 sequence
RuneError == <<239, 191, 189>>

\* The families of texts the files are drawn from: each file is a
\* concatenation of the symbols of one family.
Symbols ==
  { {<<LOWER_A>>, <<UPPER_A>>, <<SP>>},
    {<<LOWER_A>>, <<SP>>, KELVIN} }

\* The concatenations of symbols of S that are n bytes long
RECURSIVE TextsOfLen(_, _)
TextsOfLen(S, n) ==
  IF n = 0 THEN {<<>>}
  ELSE UNION {{t \o x : t \in TextsOfLen(S, n - Len(x))} :
                x \in {y \in S : Len(y) <= n}}

Files == UNION {TextsOfLen(S, n) : S \in Symbols, n \in 0..MaxFileLen}

Words == {<<>>, <<LOWER_A>>, <<UPPER_A>>, <<LOWER_A, LOWER_A>>}

Contexts == 0..MaxContext

\* ------------------------------------------------------- Go slice helpers
At(s, i) == s[i + 1]

\* s[lo:hi] of a sequence
Slice(s, lo, hi) == SubSeq(s, lo + 1, hi)

Zeros(n) == [j \in 1..n |-> NUL]

minInt(x, y) == IF x < y THEN x ELSE y

SetMin(S) == CHOOSE x \in S : \A y \in S : x <= y

\* A slice: its visible bytes and the bytes of its backing array between
\* len and cap.
MkSlice(b, sp) == [bytes |-> b, spare |-> sp]

NilSlice == MkSlice(<<>>, <<>>)

Cap(sl) == Len(sl.bytes) + Len(sl.spare)

Storage(sl) == sl.bytes \o sl.spare

\* unicode.ToLower on ASCII
ToLowerByte(b) == IF b \in 65..90 THEN b + 32 ELSE b

\* bytes.ToLower / strings.ToLower: ASCII letters are lowered in place; a
\* text with a byte >= 0x80 goes through bytes.Map(unicode.ToLower, s), which
\* re-encodes every rune: the Kelvin sign (3 bytes) becomes 'k' (1 byte), and
\* a byte that is not part of a valid UTF-8 sequence becomes U+FFFD (3
\* bytes).  Exact for texts whose bytes >= 0x80 all come from Kelvin signs,
\* whole or cut.
RECURSIVE ToLower(_)
ToLower(s) ==
  IF s = <<>> THEN <<>>
  ELSE IF Head(s) < 128 THEN <<ToLowerByte(Head(s))>> \o ToLower(Tail(s))
  ELSE IF Len(s) >= 3 /\ SubSeq(s, 1, 3) = KELVIN
       THEN <<LOWER_K>> \o ToLower(SubSeq(s, 4, Len(s)))
       ELSE RuneError \o ToLower(Tail(s))

\* bytes.Index: the first 0-based position of sep in s, -1 when there is none
Index(s, sep) ==
  LET n == Len(sep)
      at == {j \in 0..(Len(s) - n) : Slice(s, j, j + n) = sep}
  IN  IF at = {} THEN -1 ELSE SetMin(at)

\* ------------------------------------------------------------ NewSearcher
numberOfFileChunks(f) == (Len(f) + chunkSize - 1) \div chunkSize

\* One r.Read(buf) into a fresh buffer of chunkSize bytes, then buf[:n]
ReadChunk(f, c) ==
  LET lo == c * chunkSize
      hi == minInt(Len(f), lo + chunkSize)
  IN  MkSlice(Slice(f, lo, hi), Zeros(chunkSize - (hi - lo)))

\* The searcher NewSearcher returns; make([][]byte, -1) panics for an empty
\* file.
NewSearcherBuffers(f) ==
  LET n == numberOfFileChunks(f)
  IN  [j \in 1..(2 * n - 1) |->
         IF (j - 1) % 2 = 0 THEN ReadChunk(f, (j - 1) \div 2) ELSE NilSlice]

NewSearcherPanics(f) == 2 * numberOfFileChunks(f) - 1 < 0

\* ------------------------------------------------------------------ fences
sizeEitherSideFencepost(context) == context * maxWordSizeInBytes

\* The body of the fence loop for the odd slot i: the two slice expressions
\* and the append.  append writes in place when the result fits the capacity
\* of its first argument, and allocates otherwise.
FencePanics(fbs, i, W) ==
  \/ Len(At(fbs, i - 1).bytes) - W < 0
  \/ Len(At(fbs, i - 1).bytes) - W > Len(At(fbs, i - 1).bytes)
  \/ W < 0
  \/ W > Cap(At(fbs, i + 1))

\* Mutant: the fence is appended to firstHalfPost[:len(firstHalfPost)-W],
\* in the storage of the left chunk
AppendFenceShared(fbs, i, W) ==
  LET firstHalfPost == At(fbs, i - 1)
      n == Len(firstHalfPost.bytes)
      t == Slice(Storage(At(fbs, i + 1)), 0, W)
      fence == Slice(firstHalfPost.bytes, 0, n - W) \o t
  IN  [fbs EXCEPT ![i] = MkSlice(fence, firstHalfPost.spare),
                  ![i + 1] = MkSlice(fence, firstHalfPost.spare)]

AppendFence(fbs, i, W) ==
  LET firstHalfPost == At(fbs, i - 1)
      secondHalfPost == At(fbs, i + 1)
      n == Len(firstHalfPost.bytes)
      s == Slice(firstHalfPost.bytes, n - W, n)
      t == Slice(Storage(secondHalfPost), 0, W)
      inPlace == W <= Len(firstHalfPost.spare)
      rest == Slice(firstHalfPost.spare, W, Len(firstHalfPost.spare))
  IN  IF inPlace
      THEN [fbs EXCEPT ![i] = MkSlice(firstHalfPost.bytes, t \o rest),
                       ![i + 1] = MkSlice(s \o t, rest)]
      ELSE [fbs EXCEPT ![i + 1] = MkSlice(s \o t, <<>>)]

\* Mutant: a fence slot that already holds a fence is kept
PutFenceOnce(fbs, i, W) ==
  IF At(fbs, i) # NilSlice THEN fbs ELSE AppendFence(fbs, i, W)

\* ts.fileBuffers[i] = append(...): the slot is rewritten by every Search
PutFence(fbs, i, W) == AppendFence(fbs, i, W)

\* The fence loop from slot i on: the buffers it leaves, or a panic.
RECURSIVE BuildFences(_, _, _)
BuildFences(fbs, i, W) ==
  IF i >= Len(fbs) THEN [panic |-> FALSE, fbs |-> fbs]
  ELSE IF i % 2 = 0 THEN BuildFences(fbs, i + 1, W)
  ELSE IF FencePanics(fbs, i, W) THEN [panic |-> TRUE, fbs |-> fbs]
  ELSE BuildFences(PutFence(fbs, i, W), i + 1, W)

\* --------------------------------------------------- slice expressions
\* sl[i], sl[lo:], sl[:hi], sl[lo:hi] of a slice, and whether each panics.
\* Go bounds a slice expression's high index by the capacity, an index and a
\* defaulted high index by the length.
IndexPanics(sl, i) == i < 0 \/ i >= Len(sl.bytes)

SliceFromPanics(sl, lo) == lo < 0 \/ lo > Len(sl.bytes)

SliceToPanics(sl, hi) == hi < 0 \/ hi > Cap(sl)

SlicePanics(sl, lo, hi) == lo < 0 \/ lo > hi \/ hi > Cap(sl)

SliceFrom(sl, lo) == Slice(sl.bytes, lo, Len(sl.bytes))

SliceTo(sl, hi) == Slice(Storage(sl), 0, hi)

SliceOf(sl, lo, hi) == Slice(Storage(sl), lo, hi)

\* ----------------------------------------------------- context extraction
\* bytes.ReplaceAll for a non-empty old
RECURSIVE ReplaceAll(_, _, _)
ReplaceAll(s, old, new) ==
  IF Len(s) < Len(old) THEN s
  ELSE IF SubSeq(s, 1, Len(old)) = old
       THEN new \o ReplaceAll(SubSeq(s, Len(old) + 1, Len(s)), old, new)
       ELSE <<Head(s)>> \o ReplaceAll(Tail(s), old, new)

removeReturnCharacters(buf) ==
  ReplaceAll(ReplaceAll(buf, <<13, 10>>, <<SP>>), <<10>>, <<SP>>)

\* bytes.Fields: the maximal runs of non-space bytes, in order
RECURSIVE FieldsAcc(_, _, _)
FieldsAcc(s, cur, acc) ==
  IF s = <<>> THEN (IF cur = <<>> THEN acc ELSE Append(acc, cur))
  ELSE IF Head(s) \in asciiSpace
       THEN FieldsAcc(Tail(s), <<>>, IF cur = <<>> THEN acc ELSE Append(acc, cur))
       ELSE FieldsAcc(Tail(s), Append(cur, Head(s)), acc)

Fields(s) == FieldsAcc(s, <<>>, <<>>)

\* strings.Join(words, " ")
RECURSIVE Join(_)
Join(words) ==
  IF words = <<>> THEN <<>>
  ELSE IF Len(words) = 1 THEN words[1]
  ELSE words[1] \o <<SP>> \o Join(Tail(words))

Panicked == [panic |-> TRUE, str |-> <<>>]

Str(s) == [panic |-> FALSE, str |-> s]

\* The punctuation bytes equal to the first selected token, in list order
PunctuationOf(tok) ==
  SelectSeq(punctuationList, LAMBDA b : tok = <<b>>)

\* findContext on the current content fb of ts.fileBuffers[bufferNum]
RECURSIVE findContext(_, _, _, _, _)
findContext(fb, bufferAsideWord, prev, bufferIndex, numWords0) ==
  LET bufferAsSplitBytes == Fields(bufferAsideWord)
      numWords == minInt(Len(bufferAsSplitBytes), numWords0)
      wordsInBytes ==
        IF prev
        THEN SubSeq(bufferAsSplitBytes,
                    Len(bufferAsSplitBytes) - numWords + 1, Len(bufferAsSplitBytes))
        ELSE SubSeq(bufferAsSplitBytes, 1, numWords)
  IN  IF numWords0 < 0 THEN Panicked
      ELSE IF Len(wordsInBytes) = 0 THEN Str(<<>>)
      ELSE IF PunctuationOf(wordsInBytes[1]) # <<>>
      THEN LET b == Head(PunctuationOf(wordsInBytes[1]))
           IN  IF prev
               THEN IF SliceToPanics(fb, bufferIndex - 1) THEN Panicked
                    ELSE LET r == findContext(fb,
                                    removeReturnCharacters(SliceTo(fb, bufferIndex - 1)),
                                    prev, bufferIndex - 1, numWords)
                         IN  IF r.panic THEN Panicked ELSE Str(r.str \o <<b>>)
               ELSE IF SliceFromPanics(fb, bufferIndex + 1) THEN Panicked
                    ELSE LET r == findContext(fb,
                                    removeReturnCharacters(SliceFrom(fb, bufferIndex + 1)),
                                    prev, bufferIndex + 1, numWords)
                         IN  IF r.panic THEN Panicked ELSE Str(<<b>> \o r.str)
      ELSE IF prev THEN Str(Join(wordsInBytes) \o <<SP>>)
           ELSE Str(<<SP>> \o Join(wordsInBytes))

findNextWords(fb, bufferIndex, numWords) ==
  IF SliceFromPanics(fb, bufferIndex) THEN Panicked
  ELSE findContext(fb, removeReturnCharacters(SliceFrom(fb, bufferIndex)),
                   FALSE, bufferIndex, numWords)

findPrevWords(fb, bufferIndex, numWords) ==
  IF SliceToPanics(fb, bufferIndex) THEN Panicked
  ELSE findContext(fb, removeReturnCharacters(SliceTo(fb, bufferIndex)),
                   TRUE, bufferIndex, numWords)

\* -------------------------------------------------------------- isExactWord
Exact(b) == [panic |-> FALSE, err |-> FALSE, exact |-> b]

ExactErr == [panic |-> FALSE, err |-> TRUE, exact |-> FALSE]

ExactPanic == [panic |-> TRUE, err |-> FALSE, exact |-> FALSE]

isExactWord(fbs, bufferNum, word, index) ==
  IF bufferNum = 0 /\ index = 0
  THEN IF IndexPanics(At(fbs, 0), Len(word)) THEN ExactPanic
       ELSE Exact(At(At(fbs, 0).bytes, Len(word)) \notin wordCharactersList)
  ELSE IF bufferNum = Len(fbs) /\ index + Len(word) = chunkSize
  THEN ExactPanic
  ELSE IF index - 1 < 0 \/ index + 1 > chunkSize THEN ExactErr
  ELSE IF IndexPanics(At(fbs, bufferNum), index - 1) THEN ExactPanic
  ELSE IF IndexPanics(At(fbs, bufferNum), index + Len(word)) THEN ExactPanic
  ELSE LET byteBeforeWord == At(At(fbs, bufferNum).bytes, index - 1)
           byteAfterWord == At(At(fbs, bufferNum).bytes, index + Len(word))
       IN  Exact(~ (byteBeforeWord \in wordCharactersList
                     \/ byteAfterWord \in wordCharactersList))

\* string(ts.fileBuffers[i][at : at+len(word)]): the matched text is read back
\* from the buffer
MatchText(fb, at, word) == SliceOf(fb, at, at + Len(word))

\* ---------------------------------------------------- one scan iteration
\* One pass of the goroutine's for loop on buffer i: buffer and skip are the
\* goroutine's locals, fbs is ts.fileBuffers as it is now.
ScanStep(fbs, i, word, context, buffer, skip) ==
  LET wordIndex == Index(ToLower(buffer), ToLower(word))
      at == wordIndex + skip
      stop == [kind |-> "break", buffer |-> buffer, skip |-> skip,
               match |-> <<>>, at |-> 0]
      boom == [stop EXCEPT !.kind = "panic"]
      fb == At(fbs, i)
  IN  IF wordIndex = -1 THEN stop
      ELSE LET x == isExactWord(fbs, i, word, at)
               next == [stop EXCEPT
                          !.skip = skip + wordIndex + Len(word),
                          !.buffer = Slice(buffer, wordIndex + Len(word), Len(buffer)),
                          !.at = at]
           IN  IF x.panic THEN boom
               ELSE IF x.err THEN stop
               ELSE IF wordIndex + Len(word) > Len(buffer) THEN boom
               ELSE IF ~ x.exact THEN [next EXCEPT !.kind = "reject"]
               ELSE LET prevWords == IF context > 0
                                     THEN findPrevWords(fb, at, context)
                                     ELSE Str(<<>>)
                        nextWords == IF context > 0 /\ ~ prevWords.panic
                                     THEN findNextWords(fb, at + Len(word), context)
                                     ELSE Str(<<>>)
                    IN  IF prevWords.panic \/ nextWords.panic THEN boom
                        ELSE IF SlicePanics(fb, at, at + Len(word)) THEN boom
                        ELSE [next EXCEPT
                                !.kind = "match",
                                !.match = prevWords.str
                                            \o MatchText(fb, at, word)
                                            \o nextWords.str]

\* ------------------------------------------------------------------ state
VARIABLES
  file,         \* the bytes of the file at filePath
  searcher,     \* "none", "built" (NewSearcher returned) or "panic"
  fileBuffers,  \* ts.fileBuffers: chunk, fence, chunk, ...
  crashed,      \* a goroutine panicked: the process is gone
  pc,           \* per Search call: "idle", "scan", "done", or "panic" when
                \* the fence loop panicked in the caller's goroutine
  word,         \* per Search call: its word argument
  context,      \* per Search call: its context argument
  tasks,        \* per Search call: per buffer, the goroutine's state and locals
  matches,      \* per Search call: matches [][]string
  hits,         \* per Search call: per buffer, the offsets of the matches (ghost)
  flatMatches,  \* per Search call: the list returned
  reused        \* a Search with another context width returned before (ghost)

vars == <<file, searcher, fileBuffers, crashed, pc, word, context, tasks,
          matches, hits, flatMatches, reused>>

Calls == {1, 2}

NewTask == [st |-> "new", buffer |-> <<>>, skip |-> 0]

Init ==
  /\ file \in Files
  /\ searcher = "none"
  /\ fileBuffers = <<>>
  /\ crashed = FALSE
  /\ pc = [c \in Calls |-> "idle"]
  /\ word = [c \in Calls |-> <<>>]
  /\ context = [c \in Calls |-> 0]
  /\ tasks = [c \in Calls |-> <<>>]
  /\ matches = [c \in Calls |-> <<>>]
  /\ hits = [c \in Calls |-> <<>>]
  /\ flatMatches = [c \in Calls |-> <<>>]
  /\ reused = FALSE

\* NewSearcher(filePath)
NewSearcher ==
  /\ searcher = "none"
  /\ IF NewSearcherPanics(file)
     THEN searcher' = "panic" /\ UNCHANGED fileBuffers
     ELSE searcher' = "built" /\ fileBuffers' = NewSearcherBuffers(file)
  /\ UNCHANGED <<file, crashed, pc, word, context, tasks, matches, hits,
                 flatMatches, reused>>

\* Search(w, k) up to wg.Wait(): the fence loop, make(matches), the go
\* statements.
StartSearch(c, w, k) ==
  /\ searcher = "built"
  /\ ~ crashed
  /\ pc[c] \in {"idle", "done", "panic"}
  /\ LET r == BuildFences(fileBuffers, 0, sizeEitherSideFencepost(k))
         n == IF r.panic THEN 0 ELSE Len(fileBuffers)
     IN  /\ fileBuffers' = r.fbs
         /\ pc' = [pc EXCEPT ![c] = IF r.panic THEN "panic" ELSE "scan"]
         /\ tasks' = [tasks EXCEPT ![c] = [j \in 1..n |-> NewTask]]
         /\ matches' = [matches EXCEPT ![c] = [j \in 1..n |-> <<>>]]
         /\ hits' = [hits EXCEPT ![c] = [j \in 1..n |-> <<>>]]
  /\ word' = [word EXCEPT ![c] = w]
  /\ context' = [context EXCEPT ![c] = k]
  /\ flatMatches' = [flatMatches EXCEPT ![c] = <<>>]
  /\ reused' = (reused \/ \E d \in Calls : pc[d] = "done" /\ context[d] # k)
  /\ UNCHANGED <<file, searcher, crashed>>

\* The locals of the goroutine of buffer i; a goroutine that has not run yet
\* starts with buffer := ts.fileBuffers[i], skip := 0
Locals(c, i) ==
  IF At(tasks[c], i).st = "new"
  THEN [st |-> "run", buffer |-> At(fileBuffers, i).bytes, skip |-> 0]
  ELSE At(tasks[c], i)

\* One pass of the for loop of the goroutine of buffer i (the first pass
\* includes the goroutine's start)
TaskStep(c, i) ==
  /\ ~ crashed
  /\ pc[c] = "scan"
  /\ At(tasks[c], i).st # "done"
  /\ LET t == Locals(c, i)
         r == ScanStep(fileBuffers, i, word[c], context[c], t.buffer, t.skip)
     IN  CASE r.kind = "break" ->
                /\ tasks' = [tasks EXCEPT ![c][i + 1] = [t EXCEPT !.st = "done"]]
                /\ UNCHANGED <<crashed, pc, matches, hits>>
           [] r.kind = "panic" ->
                /\ crashed' = TRUE
                /\ UNCHANGED <<pc, tasks, matches, hits>>
           [] r.kind = "reject" ->
                /\ tasks' = [tasks EXCEPT ![c][i + 1] =
                               [t EXCEPT !.buffer = r.buffer, !.skip = r.skip]]
                /\ UNCHANGED <<crashed, pc, matches, hits>>
           [] r.kind = "match" ->
                /\ Len(At(matches[c], i)) < MaxMatches
                /\ tasks' = [tasks EXCEPT ![c][i + 1] =
                               [t EXCEPT !.buffer = r.buffer, !.skip = r.skip]]
                /\ matches' = [matches EXCEPT ![c][i + 1] = Append(@, r.match)]
                /\ hits' = [hits EXCEPT ![c][i + 1] = Append(@, r.at)]
                /\ UNCHANGED <<crashed, pc>>
  /\ UNCHANGED <<file, searcher, fileBuffers, word, context, flatMatches,
                 reused>>

RECURSIVE Flatten(_)
Flatten(ms) == IF ms = <<>> THEN <<>> ELSE Head(ms) \o Flatten(Tail(ms))

\* Mutant: no wg.Wait()
AllDoneNoWait(c) == TRUE

\* wg.Wait() returns once every goroutine has called wg.Done()
AllDone(c) == \A j \in 1..Len(tasks[c]) : tasks[c][j].st = "done"

\* wg.Wait() returns, the matches are flattened and Search returns
Return(c) ==
  /\ ~ crashed
  /\ pc[c] = "scan"
  /\ AllDone(c)
  /\ flatMatches' = [flatMatches EXCEPT ![c] = Flatten(matches[c])]
  /\ pc' = [pc EXCEPT ![c] = "done"]
  /\ UNCHANGED <<file, searcher, fileBuffers, crashed, word, context, tasks,
                 matches, hits, reused>>

BufferNums == 0..(Len(fileBuffers) - 1)

\* One Search call at a time
Next ==
  \/ NewSearcher
  \/ \E w \in Words, k \in Contexts : StartSearch(1, w, k)
  \/ \E i \in BufferNums : TaskStep(1, i)
  \/ Return(1)

Spec == Init /\ [][Next]_vars

\* Two Search calls on the same searcher, overlapping
ConcFiles == TextsOfLen({<<LOWER_A>>, <<SP>>}, MaxFileLen)

ConcWords == {<<LOWER_A>>}

ConcContexts == {0, MaxContext - 1}

ConcInit ==
  /\ file \in ConcFiles
  /\ searcher = "none"
  /\ fileBuffers = <<>>
  /\ crashed = FALSE
  /\ pc = [c \in Calls |-> "idle"]
  /\ word = [c \in Calls |-> <<>>]
  /\ context = [c \in Calls |-> 0]
  /\ tasks = [c \in Calls |-> <<>>]
  /\ matches = [c \in Calls |-> <<>>]
  /\ hits = [c \in Calls |-> <<>>]
  /\ flatMatches = [c \in Calls |-> <<>>]
  /\ reused = FALSE

ConcNext ==
  \/ NewSearcher
  \/ \E c \in Calls, w \in ConcWords, k \in ConcContexts : StartSearch(c, w, k)
  \/ \E c \in Calls, i \in BufferNums : TaskStep(c, i)
  \/ \E c \in Calls : Return(c)

ConcSpec == ConcInit /\ [][ConcNext]_vars

\* ------------------------------------------------- a Search call run alone
\* The whole for loop of the goroutine of buffer i on the buffers fbs: the
\* matches and their offsets, and whether the loop ended, panicked or was
\* still running after fuel passes.
RECURSIVE ScanLoop(_, _, _, _, _, _, _)
ScanLoop(fbs, i, w, k, buffer, skip, fuel) ==
  LET r == ScanStep(fbs, i, w, k, buffer, skip)
      none == [outcome |-> "ok", ms |-> <<>>, hs |-> <<>>]
  IN  IF fuel = 0 THEN [none EXCEPT !.outcome = "loops"]
      ELSE IF r.kind = "break" THEN none
      ELSE IF r.kind = "panic" THEN [none EXCEPT !.outcome = "panic"]
      ELSE LET rest == ScanLoop(fbs, i, w, k, r.buffer, r.skip, fuel - 1)
           IN  IF r.kind = "reject" THEN rest
               ELSE [rest EXCEPT !.ms = <<r.match>> \o @, !.hs = <<r.at>> \o @]

ScanBuffer(fbs, i, w, k) ==
  ScanLoop(fbs, i, w, k, At(fbs, i).bytes, 0, Len(At(fbs, i).bytes) + 2)

\* Search(w, k) on the searcher whose buffers are fbs, no other call running
SearchOn(fbs, w, k) ==
  LET r == BuildFences(fbs, 0, sizeEitherSideFencepost(k))
      per == [j \in 1..Len(fbs) |-> ScanBuffer(r.fbs, j - 1, w, k)]
  IN  IF r.panic \/ \E j \in 1..Len(fbs) : per[j].outcome = "panic"
      THEN [outcome |-> "panic", list |-> <<>>]
      ELSE IF \E j \in 1..Len(fbs) : per[j].outcome = "loops"
      THEN [outcome |-> "loops", list |-> <<>>]
      ELSE [outcome |-> "ok", list |-> Flatten([j \in 1..Len(fbs) |-> per[j].ms])]

\* Search(w, k) on a freshly built searcher for the file f
SearchAlone(f, w, k) == SearchOn(NewSearcherBuffers(f), w, k)

\* ------------------------------------------------------ notions of the claims
\* The file offset of the byte at offset h of buffer i, for context width k
AbsOffset(i, h, k) ==
  IF i % 2 = 0 THEN (i \div 2) * chunkSize + h
  ELSE ((i + 1) \div 2) * chunkSize - sizeEitherSideFencepost(k) + h

\* Byte strings up to the case of ASCII letters
Fold(s) == [j \in 1..Len(s) |-> ToLowerByte(s[j])]

\* The word w occurs in f at offset a, case-insensitively
OccursAt(f, w, a) ==
  /\ a \in 0..(Len(f) - Len(w))
  /\ Fold(Slice(f, a, a + Len(w))) = Fold(w)

\* ... as a standalone word
StandaloneAt(f, w, a) ==
  /\ OccursAt(f, w, a)
  /\ a = 0 \/ At(f, a - 1) \notin wordCharactersList
  /\ a + Len(w) = Len(f) \/ At(f, a + Len(w)) \notin wordCharactersList

\* The reports of call c: <<buffer, position in the buffer's match list>>
Reports(c) ==
  {<<i, j>> \in BufferNums \X (1..MaxMatches) : j <= Len(At(hits[c], i))}

ReportOffset(c, r) == AbsOffset(r[1], At(hits[c], r[1])[r[2]], context[c])

ReportText(c, r) == At(matches[c], r[1])[r[2]]

LastN(s, n) == SubSeq(s, Len(s) - minInt(n, Len(s)) + 1, Len(s))

FirstN(s, n) == SubSeq(s, 1, minInt(n, Len(s)))

IsPrefix(s, t) == Len(s) <= Len(t) /\ s = SubSeq(t, 1, Len(s))

Ascending(s) == \A j \in 1..(Len(s) - 1) : s[j] < s[j + 1]

Returned(c) == pc[c] = "done"

\* ------------------------------------------------------------------ claims

\* C1: when Search(word, k) returns, every standalone occurrence of a
\* non-empty word in the file has contributed exactly one string to the
\* result, also when a chunk and the adjacent fence both cover it.
C1_EachOccurrenceOnce ==
  (Returned(1) /\ word[1] # <<>>) =>
    \A a \in 0..Len(file) :
      StandaloneAt(file, word[1], a) =>
        Cardinality({r \in Reports(1) : ReportOffset(1, r) = a}) = 1

\* C2: for k >= 1 and a word shorter than W = maxWordSizeInBytes * k, a
\* standalone occurrence that straddles the boundary between two chunks is
\* reported by the scan of the fence between them.
C2_StraddlingFound ==
  (Returned(1) /\ word[1] # <<>> /\ context[1] >= 1
     /\ Len(word[1]) < sizeEitherSideFencepost(context[1])) =>
    \A m \in 1..(numberOfFileChunks(file) - 1) :
      \A a \in 0..Len(file) :
        (StandaloneAt(file, word[1], a)
           /\ a < m * chunkSize /\ m * chunkSize < a + Len(word[1])) =>
          \E r \in Reports(1) : r[1] = 2 * m - 1 /\ ReportOffset(1, r) = a

\* C3: every string Search(word, N) returns carries min(N, t) complete
\* tokens of the file on each side of the match, t being the number of
\* tokens the file has on that side.
C3_FullContext ==
  (Returned(1) /\ word[1] # <<>>) =>
    \A r \in Reports(1) :
      LET a == ReportOffset(1, r)
          n == Len(word[1])
          before == Fields(removeReturnCharacters(Slice(file, 0, a)))
          after == Fields(removeReturnCharacters(Slice(file, a + n, Len(file))))
      IN  Fields(ReportText(1, r)) =
            LastN(before, context[1]) \o <<Slice(file, a, a + n)>>
              \o FirstN(after, context[1])

\* C4: each of two Search calls that overlap on one searcher returns the
\* list the same call returns when it runs alone.
C4_ConcurrentAsAlone ==
  \A c \in Calls :
    Returned(c) =>
      SearchAlone(file, word[c], context[c]) =
        [outcome |-> "ok", list |-> flatMatches[c]]

\* C5: after any sequence of earlier Search calls, Search(word, k) returns
\* the ordered list it returns on a freshly built searcher for the file, and
\* panics only where it panics on a freshly built searcher.
C5_SameAsFresh ==
  word[1] # <<>> =>
    /\ Returned(1) =>
         SearchAlone(file, word[1], context[1]) =
           [outcome |-> "ok", list |-> flatMatches[1]]
    /\ (pc[1] = "panic" \/ crashed) =>
         SearchAlone(file, word[1], context[1]).outcome = "panic"

C5_Witness ==
  /\ Returned(1)
  /\ reused
  /\ word[1] # <<>>
  /\ \E r \in Reports(1) : r[1] % 2 = 1

\* C6: Search of a non-empty word that does not occur in the file returns an
\* empty list for every context width, and does not panic.
C6_AbsentWordEmpty ==
  ((pc[1] \in {"done", "panic"} \/ crashed) /\ word[1] # <<>>
     /\ Index(Fold(file), Fold(word[1])) = -1) =>
    (Returned(1) /\ flatMatches[1] = <<>>)

\* C7: Search(word, 0) returns for each match exactly the bytes of the file
\* at the match location, and the same list for every query that differs
\* from word only in letter case.
C7_ZeroContextExactBytes ==
  (Returned(1) /\ word[1] # <<>> /\ context[1] = 0) =>
    /\ \A r \in Reports(1) :
         /\ OccursAt(file, word[1], ReportOffset(1, r))
         /\ ReportText(1, r) =
              Slice(file, ReportOffset(1, r), ReportOffset(1, r) + Len(word[1]))
    /\ Len(flatMatches[1]) = Cardinality(Reports(1))
    /\ \A w \in Words :
         Fold(w) = Fold(word[1]) =>
           SearchAlone(file, w, 0) = [outcome |-> "ok", list |-> flatMatches[1]]

\* C8: whatever the order in which the goroutines of one Search call run,
\* no buffer changes while they run, the slot of each buffer only ever holds
\* a prefix of that buffer's own matches in ascending offset, and the list
\* returned, once all have finished, is the concatenation of the slots in
\* ascending buffer index.
C8_OrderedJoin ==
  (pc[1] \in {"scan", "done"} /\ word[1] # <<>>) =>
    LET fresh == BuildFences(NewSearcherBuffers(file), 0,
                             sizeEitherSideFencepost(context[1]))
        own == [j \in 1..Len(fileBuffers) |->
                  ScanBuffer(fresh.fbs, j - 1, word[1], context[1])]
    IN  /\ fileBuffers = fresh.fbs
        /\ \A j \in 1..Len(fileBuffers) :
             /\ IsPrefix(matches[1][j], own[j].ms)
             /\ IsPrefix(hits[1][j], own[j].hs)
             /\ Ascending(hits[1][j])
             /\ tasks[1][j].st = "done" => matches[1][j] = own[j].ms
        /\ Returned(1) =>
             /\ \A j \in 1..Len(fileBuffers) : tasks[1][j].st = "done"
             /\ flatMatches[1] = Flatten([j \in 1..Len(fileBuffers) |-> own[j].ms])

C8_Witness ==
  /\ pc[1] = "scan"
  /\ \E i \in BufferNums, j \in BufferNums :
       /\ i < j
       /\ At(tasks[1], i).st = "new"
       /\ At(tasks[1], j).st = "done"
       /\ At(matches[1], j) # <<>>
       /\ ScanBuffer(fileBuffers, i, word[1], context[1]).ms # <<>>

\* C9: Search of the empty word does not report a match at every position or
\* accumulate matches without end: no buffer yields more matches than it has
\* positions.
C9_EmptyWordBounded ==
  (word[1] = <<>> /\ pc[1] \in {"scan", "done"}) =>
    \A i \in BufferNums :
      Len(At(matches[1], i)) <= Len(At(fileBuffers, i).bytes) + 1

\* C10: for every file, the empty one included, NewSearcher returns an index
\* whose ceil(s / chunkSize) chunks cover the file in order, all of chunkSize
\* bytes except possibly the last, in a buffer sequence of 2 * chunks - 1
\* slots with chunk i at slot 2i.
C10_ChunksCoverFile ==
  searcher # "none" =>
    /\ searcher = "built"
    /\ LET n == numberOfFileChunks(file)
           chunk(c) == At(fileBuffers, 2 * c).bytes
       IN  /\ n * chunkSize >= Len(file) /\ (n - 1) * chunkSize < Len(file)
           /\ Len(fileBuffers) = 2 * n - 1
           /\ \A c \in 0..(n - 2) : Len(chunk(c)) = chunkSize
           /\ \A c \in 0..(n - 1) :
                chunk(c) = Slice(file, c * chunkSize,
                                 c * chunkSize + Len(chunk(c)))
           /\ Flatten([c \in 1..n |-> chunk(c - 1)]) = file

\* ----------------------------------------------- texts with line breaks
LF == 10
CR == 13

\* A searcher that has not been built yet, for a file of F
InitOn(F) ==
  /\ file \in F
  /\ searcher = "none"
  /\ fileBuffers = <<>>
  /\ crashed = FALSE
  /\ pc = [c \in Calls |-> "idle"]
  /\ word = [c \in Calls |-> <<>>]
  /\ context = [c \in Calls |-> 0]
  /\ tasks = [c \in Calls |-> <<>>]
  /\ matches = [c \in Calls |-> <<>>]
  /\ hits = [c \in Calls |-> <<>>]
  /\ flatMatches = [c \in Calls |-> <<>>]
  /\ reused = FALSE

\* One Search call at a time, for the words of Ws
NextOn(Ws) ==
  \/ NewSearcher
  \/ \E w \in Ws, k \in Contexts : StartSearch(1, w, k)
  \/ \E i \in BufferNums : TaskStep(1, i)
  \/ Return(1)

\* Files of several lines, and the same after a Kelvin sign
LineSymbols == {<<LOWER_A>>, <<SP>>, <<LF>>, <<CR>>}

LineFiles ==
  UNION {TextsOfLen(LineSymbols, n) : n \in 0..MaxFileLen}
    \cup {KELVIN \o t : t \in TextsOfLen(LineSymbols, MaxFileLen - 1)}

LineWords == {<<LOWER_A>>}

LineInit == InitOn(LineFiles)

LineNext == NextOn(LineWords)

LineSpec == LineInit /\ [][LineNext]_vars

\* C11: no string Search returns contains a line feed or a carriage return,
\* for a word that contains none.
C11_NoLineBreaks ==
  Returned(1) =>
    \A j \in 1..Len(flatMatches[1]) :
      \A b \in 1..Len(flatMatches[1][j]) :
        flatMatches[1][j][b] \notin {LF, CR}

\* The word w occurs standalone at offset h of the bytes b of a buffer, with
\* both neighbouring bytes in the buffer
StandaloneInBuffer(b, w, h) ==
  /\ h >= 1
  /\ h + Len(w) < Len(b)
  /\ Fold(Slice(b, h, h + Len(w))) = Fold(w)
  /\ At(b, h - 1) \notin wordCharactersList
  /\ At(b, h + Len(w)) \notin wordCharactersList

\* C12: when a buffer other than the first starts with a candidate, whose
\* left neighbour cannot be read, only that candidate is discarded: a later
\* standalone occurrence in the same buffer is still reported by the scan of
\* that buffer.
C12_ScanContinues ==
  (Returned(1) /\ word[1] # <<>>) =>
    \A i \in BufferNums :
      LET b == At(fileBuffers, i).bytes
      IN  (/\ i > 0
           /\ \A j \in 1..Len(b) : b[j] < 128
           /\ Len(word[1]) <= Len(b)
           /\ Fold(Slice(b, 0, Len(word[1]))) = Fold(word[1])) =>
            \A h \in 1..(chunkSize - 1) :
              StandaloneInBuffer(b, word[1], h) =>
                \E j \in 1..Len(At(hits[1], i)) : At(hits[1], i)[j] = h

\* C13: an occurrence that ends at the last byte of the file is validated by
\* the byte before it alone: no byte past the end of the last buffer is read
\* (no goroutine panics) and, the byte before it not being a word character,
\* Search reports the occurrence.
C13_LastByteOccurrence ==
  (/\ pc[1] \in {"scan", "done"}
   /\ word[1] # <<>>
   /\ StandaloneAt(file, word[1], Len(file) - Len(word[1]))) =>
    /\ ~ crashed
    /\ Returned(1) =>
         \E r \in Reports(1) : ReportOffset(1, r) = Len(file) - Len(word[1])

\* C14: for a file of at least one byte, a non-empty word and any context
\* width, no step of Search indexes or slices a buffer out of its bounds:
\* neither the fence loop nor a goroutine panics.
C14_NoPanic ==
  (searcher = "built" /\ Len(file) >= 1 /\ word[1] # <<>>) =>
    (~ crashed /\ pc[1] # "panic")

\* C15: every string Search returns is the report of an occurrence of the
\* word in the file whose neighbouring file bytes are both outside
\* wordCharactersList (the following byte alone at file offset 0): no
\* candidate with a word character on either side is reported.
C15_OnlyStandalone ==
  (Returned(1) /\ word[1] # <<>>) =>
    /\ Len(flatMatches[1]) = Cardinality(Reports(1))
    /\ \A r \in Reports(1) : StandaloneAt(file, word[1], ReportOffset(1, r))

\* C16: the fence Search builds between two adjacent chunks is the last
\* min(W, len(left)) bytes of the left chunk followed by the first
\* min(W, len(right)) bytes of the right chunk, W = maxWordSizeInBytes * k,
\* for every k: the fence loop does not panic and no fence holds a byte that
\* is not in the file.
C16_FenceClamped ==
  (pc[1] \in {"scan", "done", "panic"}) =>
    /\ pc[1] # "panic"
    /\ \A m \in 1..(numberOfFileChunks(file) - 1) :
         LET W == sizeEitherSideFencepost(context[1])
             left == At(fileBuffers, 2 * m - 2).bytes
             right == At(fileBuffers, 2 * m).bytes
         IN  At(fileBuffers, 2 * m - 1).bytes = LastN(left, W) \o FirstN(right, W)

\* ------------------------------------------------ texts with punctuation
DOT == 46

PunctSymbols == {<<LOWER_A>>, <<SP>>, <<DOT>>}

PunctFiles == UNION {TextsOfLen(PunctSymbols, n) : n \in 0..MaxFileLen}

PunctWords == {<<LOWER_A>>}

PunctInit == InitOn(PunctFiles)

PunctNext == NextOn(PunctWords)

PunctSpec == PunctInit /\ [][PunctNext]_vars

\* A token that is one character of punctuationList
IsPunctuation(tok) == PunctuationOf(tok) # <<>>

\* The tokens of one side of a match, nearest first
NearestFirst(T, prev) == IF prev THEN [j \in 1..Len(T) |-> T[Len(T) + 1 - j]] ELSE T

\* The side is one the rule speaks about: the token next to an adjacent
\* punctuation token is not itself a punctuation token
SingleAdjacent(T, prev) ==
  LET ts == NearestFirst(T, prev)
  IN  ~ (Len(ts) >= 2 /\ IsPunctuation(ts[1]) /\ IsPunctuation(ts[2]))

\* The non-space bytes the rule gives one side of the match: an adjacent
\* punctuation token once, next to the match, and N further tokens; N tokens
\* when the adjacent token is an ordinary one
ExpectedSide(T, N, prev) ==
  LET ts == NearestFirst(T, prev)
      adj == IF ts # <<>> /\ IsPunctuation(ts[1]) THEN ts[1] ELSE <<>>
      rest == IF adj # <<>> THEN Tail(ts) ELSE ts
      words == NearestFirst(FirstN(rest, N), prev)
  IN  IF prev THEN Flatten(words) \o adj ELSE adj \o Flatten(words)

\* C17: for N >= 1, on either side of the match, a punctuation token
\* adjacent to the match is not counted among the N context words, N further
\* words are rendered when the buffer has them, and the punctuation character
\* is rendered once, next to the matched text; other punctuation tokens are
\* ordinary tokens.  (Strings are compared up to white space.)
C17_PunctuationAdjacency ==
  (Returned(1) /\ word[1] # <<>> /\ context[1] >= 1) =>
    \A r \in Reports(1) :
      LET b == At(fileBuffers, r[1]).bytes
          h == At(hits[1], r[1])[r[2]]
          n == Len(word[1])
          before == Fields(removeReturnCharacters(Slice(b, 0, h)))
          after == Fields(removeReturnCharacters(Slice(b, h + n, Len(b))))
      IN  (SingleAdjacent(before, TRUE) /\ SingleAdjacent(after, FALSE)) =>
            Flatten(Fields(ReportText(1, r))) =
              ExpectedSide(before, context[1], TRUE)
                \o Slice(b, h, h + n)
                \o ExpectedSide(after, context[1], FALSE)

\* ------------------------------------------------------------ termination
\* The next pass of the loop of an unfinished goroutine of call c either
\* leaves the loop or moves the cursor forward by at least the length of the
\* word, past the candidate it has examined
PassAdvances(c, i) ==
  LET t == Locals(c, i)
      r == ScanStep(fileBuffers, i, word[c], context[c], t.buffer, t.skip)
  IN  r.kind \in {"reject", "match"} =>
        /\ r.skip >= t.skip + Len(word[c])
        /\ r.skip > r.at
        /\ Len(r.buffer) < Len(t.buffer)
        /\ r.skip + Len(r.buffer) = t.skip + Len(t.buffer)

\* C18: for a non-empty word every per-buffer scan terminates: each pass of
\* a goroutine's loop ends the scan or moves the cursor past the candidate by
\* the length of the word, the candidates reported are in ascending order
\* and do not overlap, and no goroutine dies on the way, so that Search
\* returns.
C18_SearchReturns ==
  (pc[1] = "scan" /\ word[1] # <<>>) =>
    /\ \A i \in BufferNums :
         /\ At(tasks[1], i).st # "done" => PassAdvances(1, i)
         /\ \A j \in 1..(Len(At(hits[1], i)) - 1) :
              At(hits[1], i)[j] + Len(word[1]) <= At(hits[1], i)[j + 1]
    /\ ~ crashed

\* C19: after any sequence of Search calls every chunk (even slot) holds the
\* bytes, and has the length and the storage, NewSearcher gave it: the
\* append of the fence loop never writes into a chunk, and Search changes
\* the fence slots only.
C19_ChunksUntouched ==
  searcher = "built" =>
    /\ Len(fileBuffers) = Len(NewSearcherBuffers(file))
    /\ \A c \in 0..(numberOfFileChunks(file) - 1) :
         At(fileBuffers, 2 * c) = At(NewSearcherBuffers(file), 2 * c)

C19_Witness ==
  /\ Returned(1)
  /\ reused
  /\ context[1] >= 1
  /\ numberOfFileChunks(file) >= 2
  /\ At(fileBuffers, 1).bytes # <<>>
  /\ At(fileBuffers, 1).bytes # At(fileBuffers, 0).bytes

====
